---- MODULE Spec2Model ----
(***************************************************************************)
(* Model of the merge engine of tools/CSV dict/csv_to_i18n.py: the CSV     *)
(* model is reconciled with the model read back from the previously        *)
(* generated i18n_gen_export.h / i18n_gen.cpp.                             *)
(*                                                                         *)
(* Python values are modelled as follows.                                  *)
(*   list            sequence                                              *)
(*   dict str->str   function whose DOMAIN is the set of dict keys         *)
(*   ordered dict    sequence of [key, entry] with pairwise distinct keys  *)
(*                   (insertion order)                                     *)
(*   None            PyNone                                                *)
(* A CSV row is the dict {"key": k, lang: value, ...}.                     *)
(*                                                                         *)
(* The two generated files are modelled by what the regular expressions of *)
(* the parsers extract from them:                                          *)
(*   h_file    [exists, has_struct, fields]: whether the file is there,    *)
(*             whether "struct Entry { ... };" matches, and the names of   *)
(*             the "const char* <name>;" fields of its body, in order      *)
(*   cpp_file  [exists, has_table, rows]: whether the file is there,       *)
(*             whether "const Entry D[] = { ... };" matches, and for each  *)
(*             brace element of its body the quoted strings it holds       *)
(* out_langs and out_data are the values of main's csv_langs and csv_data  *)
(* when the generators are called.                                         *)
(***************************************************************************)
EXTENDS Integers, Sequences, FiniteSets, TLC

VARIABLES pc, csv_langs, csv_data, existing_langs, existing_data,
          prefer, overwrite_all, drop_orphans, preserve_order_keys,
          merged_langs, merged_rows, counters,
          args_merge, h_file, cpp_file, out_langs, out_data,
          csv_rows, sort_keys, stats, h_text, cpp_text, runs

vars == <<pc, csv_langs, csv_data, existing_langs, existing_data,
          prefer, overwrite_all, drop_orphans, preserve_order_keys,
          merged_langs, merged_rows, counters,
          args_merge, h_file, cpp_file, out_langs, out_data,
          csv_rows, sort_keys, stats, h_text, cpp_text, runs>>

\* the rows read from the CSV, --sort-keys, the statistics, the parts of the
\* generated i18n_gen_export.h and i18n_gen.cpp the parsers look at (from
\* "struct Entry {" and from "const Entry D[] = {" to the line "};"), and the
\* number of runs that wrote them
io_vars == <<csv_rows, sort_keys, stats, h_text, cpp_text, runs>>

----------------------------------------------------------------------------
(* Bounds of the explored inputs *)

\* most value cells (rows times languages) of the CSV model / the existing table
MaxCsvCells == 2
MaxExCells == 2

CsvKeys == {"a", "b"}
ExKeys == {"b", "c"}
CsvValues == {"", "x"}
ExValues == {"", "x", "y"}
\* most brace elements of the table of i18n_gen.cpp
MaxCppRows == 2
\* most keys of a preserve_order_keys that is not the CSV key order
MaxHint == 2

HeaderFieldLists == {<<>>, <<"key">>, <<"key", "en">>, <<"key", "fr", "en">>}
\* the language cells of the CSV header (raw_langs); two of them lead to the
\* languages en, en_2: the one that repeats a cell and the one that names both
CsvHeaders == {<<"en">>, <<"en", "fr">>, <<"fr", "en">>, <<"en", "en">>, <<"en", "en_2">>}
ExLangLists == {<<>>, <<"en">>, <<"fr">>, <<"en", "fr">>, <<"fr", "en">>,
                <<"de", "fr">>, <<"fr", "de", "en">>}

----------------------------------------------------------------------------
(* Python helpers *)

PyNone == <<"<None>">>

Range(s) == {s[i] : i \in DOMAIN s}

\* list truthiness: None and [] are falsy
ListTruthy(l) == l # PyNone /\ l # <<>>

\* dict.get(k, "")
Get(d, k) == IF k \in DOMAIN d THEN d[k] ELSE ""

\* the dict {"key": k} then d[ln] = vals[ln] for every ln of langs, in order
RowDict(k, langs, vals) ==
    [f \in {"key"} \cup Range(langs) |-> IF f \in Range(langs) THEN vals[f] ELSE k]

\* ordered dict: membership, lookup, keys()
OdHas(od, k) == \E i \in DOMAIN od : od[i].key = k
OdGet(od, k) == od[CHOOSE i \in DOMAIN od : od[i].key = k].entry
OdKeys(od) == [i \in DOMAIN od |-> od[i].key]

----------------------------------------------------------------------------
(* merge_models *)

\* union of languages: CSV first, then the extras of existing, in order
RECURSIVE AppendNewLangs(_, _)
AppendNewLangs(acc, el) ==
    IF el = <<>> THEN acc
    ELSE AppendNewLangs(IF Head(el) \in Range(acc) THEN acc
                        ELSE Append(acc, Head(el)),
                        Tail(el))

\* the existing languages are appended without the membership test
MergedLangs_Concat(cl, el) == cl \o el

MergedLangs(cl, el) == AppendNewLangs(cl, el)

\* csv_map[row["key"]] = {ln: row.get(ln, "") for ln in merged_langs}, a later
\* row of the same key replacing the earlier one
RECURSIVE CsvMapLoop(_, _, _)
CsvMapLoop(m, cd, ml) ==
    IF cd = <<>> THEN m
    ELSE LET row == Head(cd)
             e == [ln \in Range(ml) |-> Get(row, ln)]
         IN CsvMapLoop([k \in DOMAIN m \cup {row["key"]} |->
                            IF k = row["key"] THEN e ELSE m[k]],
                       Tail(cd), ml)

CsvMap(cd, ml) == CsvMapLoop(<<>>, cd, ml)

\* the hint is ignored: always the CSV keys
InitialKeys_IgnoreHint(pok, cd) == [i \in DOMAIN cd |-> cd[i]["key"]]

\* keys_in_order before the orphans are appended
InitialKeys(pok, cd) ==
    IF ListTruthy(pok) THEN pok ELSE [i \in DOMAIN cd |-> cd[i]["key"]]

\* a dropped orphan is counted and appended all the same (no continue)
OrphanStep_NoContinue(st, k, cm, drop) ==
    IF k \notin DOMAIN cm
    THEN [keys |-> Append(st.keys, k),
          kept |-> st.kept + 1,
          dropped |-> st.dropped + (IF drop THEN 1 ELSE 0)]
    ELSE st

\* a kept orphan is put in front of the keys instead of behind them
OrphanStep_Prepend(st, k, cm, drop) ==
    IF k \notin DOMAIN cm
    THEN IF drop
         THEN [st EXCEPT !.dropped = @ + 1]
         ELSE [st EXCEPT !.kept = @ + 1, !.keys = <<k>> \o @]
    ELSE st

\* one pass of the loop over existing_data.keys(): st = [keys, kept, dropped]
OrphanStep(st, k, cm, drop) ==
    IF k \notin DOMAIN cm
    THEN IF drop
         THEN [st EXCEPT !.dropped = @ + 1]
         ELSE [st EXCEPT !.kept = @ + 1, !.keys = Append(@, k)]
    ELSE st

RECURSIVE OrphanLoop(_, _, _, _)
OrphanLoop(st, eks, cm, drop) ==
    IF eks = <<>> THEN st
    ELSE OrphanLoop(OrphanStep(st, Head(eks), cm, drop), Tail(eks), cm, drop)

OrphanScan(pok, cd, ed, cm, drop) ==
    OrphanLoop([keys |-> InitialKeys(pok, cd), kept |-> 0, dropped |-> 0],
               OdKeys(ed), cm, drop)

\* src_csv = csv_map.get(k) and src_ex = existing_data.get(k) are tested by
\* truth value: None and the empty dict are both false
SrcCsvTruthy(cm, k) == k \in DOMAIN cm /\ DOMAIN cm[k] # {}
SrcExTruthy(ed, k) == OdHas(ed, k) /\ DOMAIN OdGet(ed, k) # {}

\* (src_csv or {}).get(ln, "") and (src_ex or {}).get(ln, "")
CsvVal(cm, k, ln) == IF SrcCsvTruthy(cm, k) THEN Get(cm[k], ln) ELSE ""
ExVal(ed, k, ln) == IF SrcExTruthy(ed, k) THEN Get(OdGet(ed, k), ln) ELSE ""

\* the preferred side is taken even when it is empty
MergeValue_NoFallback(csv_val, ex_val, pref, ow) ==
    IF pref = "csv" THEN csv_val ELSE ex_val

\* the value chosen for one language of a key taken as present in both
MergeValue(csv_val, ex_val, pref, ow) ==
    IF ow THEN (IF pref = "csv" THEN csv_val ELSE ex_val)
    ELSE IF pref = "csv" THEN (IF csv_val # "" THEN csv_val ELSE ex_val)
    ELSE (IF ex_val # "" THEN ex_val ELSE csv_val)

\* the first test forgets "and not src_ex"
Branch_CsvFirst(cm, ed, k) ==
    IF SrcCsvTruthy(cm, k) THEN "new"
    ELSE IF SrcExTruthy(ed, k) /\ ~SrcCsvTruthy(cm, k) THEN "orphan"
    ELSE "both"

\* which branch of the build loop the key k takes
Branch(cm, ed, k) ==
    IF SrcCsvTruthy(cm, k) /\ ~SrcExTruthy(ed, k) THEN "new"
    ELSE IF SrcExTruthy(ed, k) /\ ~SrcCsvTruthy(cm, k) THEN "orphan"
    ELSE "both"

\* merged_entry for the key k
MergedEntry(k, cm, ed, ml, pref, ow) ==
    LET b == Branch(cm, ed, k)
        v == [ln \in Range(ml) |->
                 IF b = "new" THEN Get(cm[k], ln)
                 ELSE IF b = "orphan" THEN Get(OdGet(ed, k), ln)
                 ELSE MergeValue(CsvVal(cm, k, ln), ExVal(ed, k, ln), pref, ow)]
    IN RowDict(k, ml, v)

\* changed: some language got a value that differs from ex_val
Changed(k, cm, ed, ml, pref, ow) ==
    \E i \in DOMAIN ml :
        MergeValue(CsvVal(cm, k, ml[i]), ExVal(ed, k, ml[i]), pref, ow)
            # ExVal(ed, k, ml[i])

\* the loop over keys_in_order: st = [rows, added, updated, unchanged]
RECURSIVE BuildLoop(_, _, _, _, _, _, _)
BuildLoop(st, keys, cm, ed, ml, pref, ow) ==
    IF keys = <<>> THEN st
    ELSE LET k == Head(keys)
             b == Branch(cm, ed, k)
             ch == Changed(k, cm, ed, ml, pref, ow)
             st1 == [rows |-> Append(st.rows, MergedEntry(k, cm, ed, ml, pref, ow)),
                     added |-> st.added + (IF b = "new" THEN 1 ELSE 0),
                     updated |-> st.updated + (IF b = "both" /\ ch THEN 1 ELSE 0),
                     unchanged |-> st.unchanged + (IF b = "both" /\ ~ch THEN 1 ELSE 0)]
         IN BuildLoop(st1, Tail(keys), cm, ed, ml, pref, ow)

\* the triple returned by merge_models
MergeModels(cl, cd, el, ed, pref, ow, drop, pok) ==
    LET ml == MergedLangs(cl, el)
        cm == CsvMap(cd, ml)
        os == OrphanScan(pok, cd, ed, cm, drop)
        bs == BuildLoop([rows |-> <<>>, added |-> 0, updated |-> 0, unchanged |-> 0],
                        os.keys, cm, ed, ml, pref, ow)
    IN [langs |-> ml,
        rows |-> bs.rows,
        counters |-> [added |-> bs.added,
                      updated |-> bs.updated,
                      unchanged |-> bs.unchanged,
                      orphan_kept |-> os.kept,
                      orphan_dropped |-> os.dropped]]

----------------------------------------------------------------------------
(* Parsers of the generated files *)

\* parse_existing_header: the language fields, or None
ParseExistingHeader(h) ==
    IF ~h.exists THEN PyNone
    ELSE IF ~h.has_struct THEN PyNone
    ELSE LET langs == SelectSeq(h.fields, LAMBDA ln : ln # "key")
         IN IF langs = <<>> THEN PyNone ELSE langs

\* entry[ln] = vals[i] if i < len(vals) else "", for i, ln in enumerate(langs)
TableEntry(vals, langs) ==
    [ln \in Range(langs) |->
        LET i == CHOOSE i \in DOMAIN langs :
                    langs[i] = ln /\ \A j \in DOMAIN langs : langs[j] = ln => j <= i
        IN IF i <= Len(vals) THEN vals[i] ELSE ""]

\* result[key] = entry on an insertion-ordered dict
OdPut(od, k, e) ==
    IF OdHas(od, k)
    THEN [i \in DOMAIN od |-> IF od[i].key = k THEN [key |-> k, entry |-> e] ELSE od[i]]
    ELSE Append(od, [key |-> k, entry |-> e])

RECURSIVE TableLoop(_, _, _)
TableLoop(result, rows, langs) ==
    IF rows = <<>> THEN result
    ELSE LET fields == Head(rows) IN
         IF fields = <<>> THEN TableLoop(result, Tail(rows), langs)
         ELSE TableLoop(OdPut(result, Head(fields), TableEntry(Tail(fields), langs)),
                        Tail(rows), langs)

\* parse_existing_table: { key: { lang: value } }
ParseExistingTable(cpp, langs) ==
    IF ~cpp.exists THEN <<>>
    ELSE IF ~cpp.has_table THEN <<>>
    ELSE TableLoop(<<>>, cpp.rows, langs)

----------------------------------------------------------------------------
(* Strings. A string is the sequence of its characters: Len, Head, Tail,   *)
(* SubSeq and \o act on it, and a character is a string of length one.     *)

\* the characters that have no escape in a string, written as they are:
\* U+000B, U+001C to U+001F, U+0085, U+00A0, U+1680 and U+FEFF
VerticalTab == ""
FileSeparator == ""
GroupSeparator == ""
RecordSeparator == ""
UnitSeparator == ""
NextLine == ""
NoBreakSpace == " "
OghamSpace == " "
ByteOrderMark == "﻿"

\* the characters str.isspace() holds for, which str.strip() removes from both
\* ends and \s of a regular expression matches; the spaces U+2000 to U+200A,
\* U+2028, U+2029, U+202F, U+205F and U+3000 cannot be written in a string
\* of this module and so are in no string of the model
Whitespace ==
    {" ", "\t", "\n", "\r", "\f", VerticalTab, FileSeparator, GroupSeparator,
     RecordSeparator, UnitSeparator, NextLine, NoBreakSpace, OghamSpace}

\* str.lstrip(chars)
RECURSIVE LStripChars(_, _)
LStripChars(s, cs) == IF s # "" /\ Head(s) \in cs THEN LStripChars(Tail(s), cs) ELSE s

RECURSIVE LStrip(_)
LStrip(s) == IF s # "" /\ Head(s) \in Whitespace THEN LStrip(Tail(s)) ELSE s

RECURSIVE RStrip(_)
RStrip(s) ==
    IF s # "" /\ SubSeq(s, Len(s), Len(s)) \in Whitespace
    THEN RStrip(SubSeq(s, 1, Len(s) - 1))
    ELSE s

Strip(s) == RStrip(LStrip(s))

StartsWith(s, p) == Len(s) >= Len(p) /\ SubSeq(s, 1, Len(p)) = p

\* the least number of a set of numbers that is not empty
MinOf(S) == CHOOSE x \in S : \A y \in S : x <= y

\* the position of the first p in s at or after position i, 0 if there is none
FindFrom(s, p, i) ==
    LET hits == {j \in i..(Len(s) - Len(p) + 1) : SubSeq(s, j, j + Len(p) - 1) = p}
    IN IF hits = {} THEN 0 ELSE MinOf(hits)

\* str.replace(old, new), old not empty: leftmost occurrences, left to right
RECURSIVE Replace(_, _, _)
Replace(s, old, new) ==
    LET h == FindFrom(s, old, 1)
    IN IF h = 0 THEN s
       ELSE SubSeq(s, 1, h - 1) \o new
                \o Replace(SubSeq(s, h + Len(old), Len(s)), old, new)

CharsOf(s) == {SubSeq(s, i, i) : i \in 1..Len(s)}

UpperCase == "ABCDEFGHIJKLMNOPQRSTUVWXYZ"
LowerCase == "abcdefghijklmnopqrstuvwxyz"
Digits == "0123456789"

\* the lower-case letter of each upper-case letter
LowerOf ==
    [c \in CharsOf(UpperCase) |->
        LET i == CHOOSE i \in 1..Len(UpperCase) : SubSeq(UpperCase, i, i) = c
        IN SubSeq(LowerCase, i, i)]

\* str.lower() on ASCII text
RECURSIVE Lower(_)
Lower(s) ==
    IF s = "" THEN ""
    ELSE LET c == Head(s)
         IN (IF c \in DOMAIN LowerOf THEN LowerOf[c] ELSE c) \o Lower(Tail(s))

\* the characters of the model in code point order (Python orders strings
\* by code point); the backquote cannot be written in a string of this module
Ascii ==
    "\t\n" \o VerticalTab \o "\f\r" \o FileSeparator \o GroupSeparator
        \o RecordSeparator \o UnitSeparator
        \o " !" \o "\"" \o "#$%&'" \o "(" \o ")" \o "*+,-./" \o Digits
        \o ":;<=>?@" \o UpperCase \o "[" \o "\\" \o "]^_" \o LowerCase \o "{|}~"
        \o NextLine \o NoBreakSpace \o OghamSpace \o ByteOrderMark

\* the rank of each character in that order
Rank == [c \in CharsOf(Ascii) |-> CHOOSE i \in 1..Len(Ascii) : SubSeq(Ascii, i, i) = c]

Ord(c) == Rank[c]

\* a < b for strings
RECURSIVE StrLess(_, _)
StrLess(a, b) ==
    IF b = "" THEN FALSE
    ELSE IF a = "" THEN TRUE
    ELSE IF Head(a) = Head(b) THEN StrLess(Tail(a), Tail(b))
    ELSE Ord(Head(a)) < Ord(Head(b))

----------------------------------------------------------------------------
(* sanitize_lang_name *)

\* [A-Za-z0-9_]
WordChars == CharsOf(UpperCase \o LowerCase \o Digits \o "_")
DigitChars == CharsOf(Digits)

\* _LANG_SANITIZE.sub("_", s): every character outside [A-Za-z0-9_] becomes "_"
RECURSIVE LangSanitizeSub(_)
LangSanitizeSub(s) ==
    IF s = "" THEN ""
    ELSE (IF Head(s) \in WordChars
          THEN Head(s) ELSE "_") \o LangSanitizeSub(Tail(s))

sanitize_lang_name(s) ==
    LET s0 == LangSanitizeSub(Replace(Replace(Strip(s), "-", "_"), " ", "_"))
        s1 == IF s0 # "" /\ Head(s0) \in DigitChars THEN "_" \o s0 ELSE s0
    IN IF s1 = "" THEN "unnamed" ELSE s1

----------------------------------------------------------------------------
(* The language loop of validate_and_build *)

\* d[k] = v on a dict
DictPut(d, k, v) == [x \in DOMAIN d \cup {k} |-> IF x = k THEN v ELSE d[x]]

\* while cname in seen: i += 1; cname = f"{base}_{i}"
RECURSIVE NextFreeName(_, _, _, _)
NextFreeName(base, cname, i, seen) ==
    IF cname \in seen
    THEN NextFreeName(base, base \o "_" \o ToString(i + 1), i + 1, seen)
    ELSE cname

\* the loop over raw_langs: st = [langs, lang_map, seen]
RECURSIVE LangLoop(_, _)
LangLoop(st, raw) ==
    IF raw = <<>> THEN st
    ELSE LET name == Head(raw)
             base == sanitize_lang_name(name)
             cname == NextFreeName(base, base, 1, st.seen)
         IN LangLoop([langs |-> Append(st.langs, cname),
                      lang_map |-> DictPut(st.lang_map, name, cname),
                      seen |-> st.seen \cup {cname}],
                     Tail(raw))

----------------------------------------------------------------------------
(* Inputs *)

\* sequences of length at most n over the set S
SeqsUpTo(S, n) == UNION {[1..m -> S] : m \in 0..n}

NoDup(s) == \A i, j \in DOMAIN s : i # j => s[i] # s[j]

\* what the loop over raw_langs leaves: langs, lang_map and seen
HeaderLangs(raw) == LangLoop([langs |-> <<>>, lang_map |-> <<>>, seen |-> {}], raw)

\* the language lists validate_and_build returns
CsvLangLists == {HeaderLangs(raw).langs : raw \in CsvHeaders}

\* the languages the records of a header hold: the values of lang_map, which
\* keeps for a cell met more than once the identifier of its last column only
HeldLangs(raw) ==
    LET lang_map == HeaderLangs(raw).lang_map
    IN {lang_map[name] : name \in DOMAIN lang_map}

\* the records validate_and_build makes under the header cells raw
HeaderRows(raw) ==
    {[f \in {"key"} \cup HeldLangs(raw) |-> IF f = "key" THEN k ELSE v[f]] :
        k \in CsvKeys, v \in [HeldLangs(raw) -> CsvValues]}

\* the headers that give the language list cl
HeadersOf(cl) == {raw \in CsvHeaders : HeaderLangs(raw).langs = cl}

\* the records validate_and_build makes for the language list cl
CsvRows(cl) == UNION {HeaderRows(raw) : raw \in HeadersOf(cl)}

\* the tables parse_existing_table makes for the language list el
ExRows(el) == {[key |-> k, entry |-> e] : k \in ExKeys, e \in [Range(el) -> ExValues]}

\* a dict holds a key once, so a table has at most Cardinality(ExKeys) rows
ExTables(el) ==
    UNION {{t \in [1..m -> ExRows(el)] : NoDup(OdKeys(t))} :
              m \in {n \in 0..Cardinality(ExKeys) : n * Len(el) <= MaxExCells}}

\* csv_langs is never empty, so the cell bound bounds the rows
\* and the records of one table come from one header
CsvTables(cl) ==
    UNION {[1..m -> HeaderRows(raw)] :
              raw \in HeadersOf(cl), m \in {n \in 0..MaxCsvCells : n * Len(cl) <= MaxCsvCells}}

\* the generated files: absent, or present with what the parsers find in them
NoFile == [exists |-> FALSE, has_struct |-> FALSE, fields |-> <<>>]

HeaderFiles ==
    {NoFile, [exists |-> TRUE, has_struct |-> FALSE, fields |-> <<>>]}
    \cup {[exists |-> TRUE, has_struct |-> TRUE, fields |-> f] : f \in HeaderFieldLists}

NoCppFile == [exists |-> FALSE, has_table |-> FALSE, rows |-> <<>>]

\* the quoted strings of one brace element: none, a key, or a key and values
CppFieldLists == {<<>>, <<"b">>, <<"b", "x">>, <<"c", "y">>}

CppFiles ==
    {NoCppFile, [exists |-> TRUE, has_table |-> FALSE, rows |-> <<>>]}
    \cup {[exists |-> TRUE, has_table |-> TRUE, rows |-> r] :
              r \in SeqsUpTo(CppFieldLists, MaxCppRows)}

NoCounters == [added |-> 0, updated |-> 0, unchanged |-> 0,
               orphan_kept |-> 0, orphan_dropped |-> 0]

\* no CSV was read and no text was generated
NoIo ==
    /\ csv_rows = <<>>
    /\ sort_keys = FALSE
    /\ stats = PyNone
    /\ h_text = ""
    /\ cpp_text = ""
    /\ runs = 0

Init ==
    /\ pc = "start"
    /\ csv_langs \in CsvLangLists
    /\ csv_data \in CsvTables(csv_langs)
    /\ existing_langs \in ExLangLists
    /\ existing_data \in ExTables(existing_langs)
    /\ prefer \in {"csv", "existing"}
    /\ overwrite_all \in BOOLEAN
    /\ drop_orphans \in BOOLEAN
    /\ preserve_order_keys \in {PyNone, [i \in DOMAIN csv_data |-> csv_data[i]["key"]]}
    /\ merged_langs = <<>>
    /\ merged_rows = <<>>
    /\ counters = NoCounters
    /\ args_merge = FALSE
    /\ h_file = NoFile
    /\ cpp_file = NoCppFile
    /\ out_langs = <<>>
    /\ out_data = <<>>
    /\ NoIo

merge_models ==
    /\ pc = "start"
    /\ \E r \in {MergeModels(csv_langs, csv_data, existing_langs, existing_data,
                              prefer, overwrite_all, drop_orphans, preserve_order_keys)} :
          /\ merged_langs' = r.langs
          /\ merged_rows' = r.rows
          /\ counters' = r.counters
    /\ pc' = "done"
    /\ UNCHANGED <<csv_langs, csv_data, existing_langs, existing_data,
                   prefer, overwrite_all, drop_orphans, preserve_order_keys,
                   args_merge, h_file, cpp_file, out_langs, out_data, io_vars>>

Next == merge_models

Spec == Init /\ [][Next]_vars

----------------------------------------------------------------------------
(* merge_models called with any preserve_order_keys: absent, empty, the    *)
(* CSV key order as main passes it, or another order of keys of the CSV,   *)
(* of the existing table or of neither, some keys left out                 *)

HintKeys == CsvKeys \cup ExKeys
HintExLangLists == {<<>>, <<"en">>, <<"fr", "en">>}

Hints(cd) ==
    {PyNone, [i \in DOMAIN cd |-> cd[i]["key"]]}
        \cup {h \in SeqsUpTo(HintKeys, MaxHint) : NoDup(h)}

InitHint ==
    /\ pc = "start"
    /\ csv_langs \in CsvLangLists
    /\ csv_data \in CsvTables(csv_langs)
    /\ existing_langs \in HintExLangLists
    /\ existing_data \in ExTables(existing_langs)
    /\ prefer \in {"csv", "existing"}
    /\ overwrite_all \in BOOLEAN
    /\ drop_orphans \in BOOLEAN
    /\ preserve_order_keys \in Hints(csv_data)
    /\ merged_langs = <<>>
    /\ merged_rows = <<>>
    /\ counters = NoCounters
    /\ args_merge = FALSE
    /\ h_file = NoFile
    /\ cpp_file = NoCppFile
    /\ out_langs = <<>>
    /\ out_data = <<>>
    /\ NoIo

SpecHint == InitHint /\ [][Next]_vars

----------------------------------------------------------------------------
(* main, run with --dry-run: the CSV model is merged with what the two     *)
(* generated files of the output folder hold, and no file is written       *)

InitMain ==
    /\ pc = "main"
    /\ csv_langs \in CsvLangLists
    /\ csv_data \in CsvTables(csv_langs)
    /\ prefer \in {"csv", "existing"}
    /\ overwrite_all \in BOOLEAN
    /\ drop_orphans \in BOOLEAN
    /\ args_merge \in BOOLEAN
    /\ h_file \in HeaderFiles
    /\ cpp_file \in CppFiles
    /\ ~args_merge => (h_file = NoFile /\ cpp_file = NoCppFile)
    /\ existing_langs = <<>>
    /\ existing_data = <<>>
    /\ preserve_order_keys = PyNone
    /\ merged_langs = <<>>
    /\ merged_rows = <<>>
    /\ counters = PyNone
    /\ out_langs = <<>>
    /\ out_data = <<>>
    /\ NoIo

main ==
    /\ pc = "main"
    /\ IF args_merge /\ h_file.exists /\ cpp_file.exists
       THEN LET hl == ParseExistingHeader(h_file)
                el == IF ListTruthy(hl) THEN hl ELSE <<>>
                ed == ParseExistingTable(cpp_file, el)
                pok == [i \in DOMAIN csv_data |-> csv_data[i]["key"]]
                r == MergeModels(csv_langs, csv_data, el, ed,
                                 prefer, overwrite_all, drop_orphans, pok)
            IN /\ existing_langs' = el
               /\ existing_data' = ed
               /\ preserve_order_keys' = pok
               /\ merged_langs' = r.langs
               /\ merged_rows' = r.rows
               /\ counters' = r.counters
               /\ out_langs' = r.langs
               /\ out_data' = r.rows
       ELSE /\ out_langs' = csv_langs
            /\ out_data' = csv_data
            /\ UNCHANGED <<existing_langs, existing_data, preserve_order_keys,
                           merged_langs, merged_rows, counters>>
    /\ pc' = "main_done"
    /\ UNCHANGED <<csv_langs, csv_data, prefer, overwrite_all, drop_orphans,
                   args_merge, h_file, cpp_file, io_vars>>

(* merge_models called on a model and itself: the existing table holds    *)
(* the CSV records, in the CSV order or the reverse one                    *)

Reverse(s) == [i \in DOMAIN s |-> s[Len(s) + 1 - i]]

\* the CSV records as the table parse_existing_table returns
AsExisting(cd, cl) ==
    [i \in DOMAIN cd |-> [key |-> cd[i]["key"],
                          entry |-> [ln \in Range(cl) |-> Get(cd[i], ln)]]]

InitSelf ==
    /\ pc = "start"
    /\ csv_langs \in CsvLangLists
    /\ csv_data \in {t \in CsvTables(csv_langs) :
                        NoDup([i \in DOMAIN t |-> t[i]["key"]])}
    /\ existing_langs \in {csv_langs, Reverse(csv_langs)}
    /\ existing_data \in {AsExisting(csv_data, csv_langs),
                          Reverse(AsExisting(csv_data, csv_langs))}
    /\ prefer \in {"csv", "existing"}
    /\ overwrite_all \in BOOLEAN
    /\ drop_orphans \in BOOLEAN
    /\ preserve_order_keys \in {PyNone, [i \in DOMAIN csv_data |-> csv_data[i]["key"]]}
    /\ merged_langs = <<>>
    /\ merged_rows = <<>>
    /\ counters = NoCounters
    /\ args_merge = FALSE
    /\ h_file = NoFile
    /\ cpp_file = NoCppFile
    /\ out_langs = <<>>
    /\ out_data = <<>>
    /\ NoIo

SpecSelf == InitSelf /\ [][Next]_vars

NextMain == main

SpecMain == InitMain /\ [][NextMain]_vars

----------------------------------------------------------------------------
(* Vocabulary of the properties, read off the inputs and the results *)

Done == pc = "done"

CsvKeySeq == [i \in DOMAIN csv_data |-> csv_data[i]["key"]]
CsvKeySet == Range(CsvKeySeq)
ExKeySet == Range(OdKeys(existing_data))
SharedKeys == CsvKeySet \cap ExKeySet
MergedKeySeq == [i \in DOMAIN merged_rows |-> merged_rows[i]["key"]]

\* the CSV record that stands for the key k (the last one of that key)
CsvRecord(k) ==
    csv_data[CHOOSE i \in DOMAIN csv_data :
                /\ csv_data[i]["key"] = k
                /\ \A j \in DOMAIN csv_data : csv_data[j]["key"] = k => j <= i]

\* the value of each source for a key and a language, a missing language
\* counting as empty
CsvValueOf(k, ln) == Get(CsvRecord(k), ln)
ExValueOf(k, ln) == Get(OdGet(existing_data, k), ln)

\* the merged rows are the CSV records: the same keys in the same order,
\* and for every merged language the value of the CSV record, a language
\* the record lacks counting as empty
MergedAreCsvRecords ==
    /\ MergedKeySeq = CsvKeySeq
    /\ \A i \in DOMAIN merged_rows :
          /\ DOMAIN merged_rows[i] = {"key"} \cup Range(merged_langs)
          /\ \A ln \in Range(merged_langs) : merged_rows[i][ln] = Get(csv_data[i], ln)

\* some language of the merged row i differs from the existing table
DiffersFromExisting(i) ==
    \E n \in DOMAIN merged_langs :
        merged_rows[i][merged_langs[n]] # ExValueOf(merged_rows[i]["key"], merged_langs[n])

----------------------------------------------------------------------------
(* C1: counter identity. After merge_models, added + updated + unchanged + *)
(* orphan_kept equals the number of merged rows.                           *)
C1_CounterIdentity ==
    Done => counters.added + counters.updated + counters.unchanged
              + counters.orphan_kept = Len(merged_rows)

(* C2: union completeness. The keys of the merged rows are the CSV keys    *)
(* and the existing keys, or exactly the CSV keys when orphans are dropped. *)
C2_UnionCompleteness ==
    Done => Range(MergedKeySeq) =
              (IF drop_orphans THEN CsvKeySet ELSE CsvKeySet \cup ExKeySet)

C2_Witness ==
    /\ Done
    /\ drop_orphans
    /\ CsvKeySet # {}
    /\ ExKeySet \ CsvKeySet # {}
    /\ SharedKeys # {}

(* C3: non-destructive default. With overwrite_all off, every merged value *)
(* of a key of both sources is the preferred side's value if that is       *)
(* non-empty and the other side's value otherwise, hence non-empty when    *)
(* either side is.                                                         *)
C3_Conservative ==
    (Done /\ ~overwrite_all) =>
        \A i \in DOMAIN merged_rows : \A n \in DOMAIN merged_langs :
            LET k == merged_rows[i]["key"]
                ln == merged_langs[n]
                c == CsvValueOf(k, ln)
                e == ExValueOf(k, ln)
                m == merged_rows[i][ln]
            IN k \in SharedKeys =>
                 /\ (c # "" \/ e # "") => m # ""
                 /\ prefer = "csv" => m = (IF c # "" THEN c ELSE e)
                 /\ prefer = "existing" => m = (IF e # "" THEN e ELSE c)

C3_Witness ==
    /\ Done
    /\ ~overwrite_all
    /\ prefer = "csv"
    /\ \E i \in DOMAIN merged_rows : \E n \in DOMAIN merged_langs :
          LET k == merged_rows[i]["key"] IN
          /\ k \in SharedKeys
          /\ CsvValueOf(k, merged_langs[n]) = ""
          /\ ExValueOf(k, merged_langs[n]) = "y"
          /\ merged_rows[i][merged_langs[n]] = "y"

(* C4: classification by membership. added counts the keys of the CSV      *)
(* only, the orphan counters the keys of the existing table only, updated  *)
(* and unchanged together the keys of both.                                *)
C4_Classification ==
    Done =>
        /\ counters.added = Cardinality(CsvKeySet \ ExKeySet)
        /\ counters.orphan_kept + counters.orphan_dropped
              = Cardinality(ExKeySet \ CsvKeySet)
        /\ drop_orphans => counters.orphan_kept = 0
        /\ ~drop_orphans => counters.orphan_dropped = 0
        /\ counters.updated + counters.unchanged = Cardinality(SharedKeys)

\* the keys found only in the existing table, in the table's order
OrphanKeySeq == SelectSeq(OdKeys(existing_data), LAMBDA k : k \notin CsvKeySet)

(* C5 as stated: order of the merged rows. First preserve_order_keys if    *)
(* supplied (any list, the empty one too), else the CSV keys in CSV order; *)
(* then, unless dropped, the keys found only in the existing table, in the *)
(* table's order.                                                          *)
C5_Order ==
    Done => MergedKeySeq =
              (IF preserve_order_keys # PyNone THEN preserve_order_keys ELSE CsvKeySeq)
              \o (IF drop_orphans THEN <<>> ELSE OrphanKeySeq)

(* C5, amended: order of the merged rows. First preserve_order_keys if     *)
(* supplied and not empty, else (absent or empty) the CSV keys in CSV      *)
(* order; then, unless dropped, the keys found only in the existing table, *)
(* in the table's order.                                                   *)
C5_OrderNonEmptyHint ==
    Done => MergedKeySeq =
              (IF preserve_order_keys # PyNone /\ preserve_order_keys # <<>>
               THEN preserve_order_keys ELSE CsvKeySeq)
              \o (IF drop_orphans THEN <<>> ELSE OrphanKeySeq)

\* a hint that reverses the CSV keys, with a shared key and an orphan
C5_Witness ==
    /\ Done
    /\ ~drop_orphans
    /\ CsvKeySeq = <<"a", "b">>
    /\ preserve_order_keys = <<"b", "a">>
    /\ OdKeys(existing_data) = <<"b", "c">>
    /\ MergedKeySeq = <<"b", "a", "c">>

(* C6: merged language list. The CSV languages as a prefix, then the       *)
(* existing languages the CSV lacks, in their order; every language of     *)
(* both lists, none twice.                                                 *)
C6_Languages ==
    Done =>
        /\ merged_langs = csv_langs
              \o SelectSeq(existing_langs, LAMBDA ln : ln \notin Range(csv_langs))
        /\ Range(merged_langs) = Range(csv_langs) \cup Range(existing_langs)
        /\ NoDup(merged_langs)

C6_Witness ==
    /\ Done
    /\ csv_langs = <<"en">>
    /\ existing_langs = <<"fr", "de", "en">>
    /\ merged_langs = <<"en", "fr", "de">>

(* C7: danger mode. With overwrite_all on, every merged value of a key of  *)
(* both sources is the CSV value under prefer=csv and the existing value   *)
(* under prefer=existing, empty or not.                                    *)
C7_OverwriteAll ==
    (Done /\ overwrite_all) =>
        \A i \in DOMAIN merged_rows : \A n \in DOMAIN merged_langs :
            LET k == merged_rows[i]["key"]
                ln == merged_langs[n]
            IN k \in SharedKeys =>
                 merged_rows[i][ln] =
                    (IF prefer = "csv" THEN CsvValueOf(k, ln) ELSE ExValueOf(k, ln))

(* C8: merging a model with itself. With the existing table holding the    *)
(* languages, keys and values of the CSV records, every key is unchanged,  *)
(* nothing is added, updated or orphaned, and the rows are the CSV rows.   *)
SelfMerge ==
    /\ Range(existing_langs) = Range(csv_langs)
    /\ Len(existing_langs) = Len(csv_langs)
    /\ Len(existing_data) = Len(csv_data)
    /\ ExKeySet = CsvKeySet
    /\ \A i \in DOMAIN csv_data : \A ln \in Range(csv_langs) :
          ExValueOf(csv_data[i]["key"], ln) = Get(csv_data[i], ln)

C8_SelfMerge ==
    (Done /\ SelfMerge) =>
        /\ counters = [added |-> 0, updated |-> 0,
                       unchanged |-> Cardinality(CsvKeySet),
                       orphan_kept |-> 0, orphan_dropped |-> 0]
        /\ MergedAreCsvRecords

C8_Witness ==
    /\ Done
    /\ SelfMerge
    /\ overwrite_all
    /\ Len(csv_data) = 2
    /\ \E i \in DOMAIN csv_data : \E ln \in Range(csv_langs) : Get(csv_data[i], ln) = "x"
    /\ \E i \in DOMAIN csv_data : \E ln \in Range(csv_langs) : Get(csv_data[i], ln) = ""
    /\ OdKeys(existing_data) # CsvKeySeq
    /\ counters.unchanged = 2

(* C9: updated or unchanged. A key of both sources is counted updated when *)
(* some merged value differs from the existing table's value, unchanged    *)
(* otherwise.                                                              *)
C9_UpdatedIffDiffers ==
    Done =>
        /\ counters.updated =
              Cardinality({i \in DOMAIN merged_rows :
                  merged_rows[i]["key"] \in SharedKeys /\ DiffersFromExisting(i)})
        /\ counters.unchanged =
              Cardinality({i \in DOMAIN merged_rows :
                  merged_rows[i]["key"] \in SharedKeys /\ ~DiffersFromExisting(i)})

----------------------------------------------------------------------------
(* C10: unreadable header. When parse_existing_header finds no struct      *)
(* Entry or no language field, the run merges against the empty model:     *)
(* no existing language, no existing record, every CSV row added, no       *)
(* orphan, and the merged rows are the CSV records.                        *)
MergeRan == pc = "main_done" /\ args_merge /\ h_file.exists /\ cpp_file.exists

HeaderUnreadable ==
    ~h_file.has_struct \/ \A i \in DOMAIN h_file.fields : h_file.fields[i] = "key"

C10_UnreadableHeader ==
    (MergeRan /\ HeaderUnreadable) =>
        /\ existing_langs = <<>>
        /\ existing_data = <<>>
        /\ counters.added = Len(csv_data)
        /\ counters.orphan_kept = 0
        /\ counters.orphan_dropped = 0
        /\ MergedAreCsvRecords

----------------------------------------------------------------------------
(* validate_and_build *)

\* r + [""] * n for a short row
RECURSIVE PadRow(_, _)
PadRow(r, n) == IF Len(r) < n THEN PadRow(Append(r, ""), n) ELSE r

\* the loop over enumerate(raw_langs, start=1): st = [item, empty_count]
RECURSIVE ItemLoop(_, _, _, _, _)
ItemLoop(st, i, raw_langs, lang_map, r) ==
    IF i > Len(raw_langs) THEN st
    ELSE LET cname == lang_map[raw_langs[i]]
             val == IF i + 1 <= Len(r) THEN Strip(r[i + 1]) ELSE ""
         IN ItemLoop([item |-> DictPut(st.item, cname, val),
                      empty_count |-> IF val = ""
                                      THEN [st.empty_count EXCEPT ![cname] = @ + 1]
                                      ELSE st.empty_count],
                     i + 1, raw_langs, lang_map, r)

\* the loop over rows[1:]: st = [data, key_seen, dup_keys, empty_count]
RECURSIVE DataLoop(_, _, _, _)
DataLoop(st, body, raw_langs, lang_map) ==
    IF body = <<>> THEN st
    ELSE LET r0 == Head(body)
             r == PadRow(r0, 1 + Len(raw_langs))
             key == Strip(r[1])
         IN IF r0 = <<>> \/ \A i \in DOMAIN r0 : r0[i] = ""
            THEN DataLoop(st, Tail(body), raw_langs, lang_map)
            ELSE IF key = "" \/ StartsWith(key, "#") \/ StartsWith(key, "//")
            THEN DataLoop(st, Tail(body), raw_langs, lang_map)
            ELSE LET it == ItemLoop([item |-> [x \in {"key"} |-> key],
                                     empty_count |-> st.empty_count],
                                    1, raw_langs, lang_map, r)
                 IN DataLoop([data |-> Append(st.data, it.item),
                              key_seen |-> st.key_seen \cup {key},
                              dup_keys |-> IF key \in st.key_seen
                                           THEN Append(st.dup_keys, key)
                                           ELSE st.dup_keys,
                              empty_count |-> it.empty_count],
                             Tail(body), raw_langs, lang_map)

\* data.sort(key=lambda d: d["key"]): stable, ascending
RECURSIVE InsertByKey(_, _)
InsertByKey(sorted, d) ==
    IF sorted = <<>> THEN <<d>>
    ELSE IF StrLess(d["key"], Head(sorted)["key"]) THEN <<d>> \o sorted
    ELSE <<Head(sorted)>> \o InsertByKey(Tail(sorted), d)

RECURSIVE SortByKey(_, _)
SortByKey(sorted, data) ==
    IF data = <<>> THEN sorted
    ELSE SortByKey(InsertByKey(sorted, Head(data)), Tail(data))

\* sorted(set(dup_keys))
RECURSIVE SortedSet(_)
SortedSet(S) ==
    IF S = {} THEN <<>>
    ELSE LET m == CHOOSE m \in S : \A o \in S : ~StrLess(o, m)
         IN <<m>> \o SortedSet(S \ {m})

\* the duplicates are reported in the order they were met
Duplicates_AsMet(dup_keys) ==
    SelectSeq([i \in DOMAIN dup_keys |->
                  IF \E j \in 1..(i - 1) : dup_keys[j] = dup_keys[i] THEN "" ELSE dup_keys[i]],
              LAMBDA k : k # "")

Duplicates(dup_keys) == SortedSet(Range(dup_keys))

\* header[0] = header[0].lstrip("\ufeff"), written into rows[0] itself
HeaderUnmarked(rs) ==
    [rs EXCEPT ![1] = [@ EXCEPT ![1] = LStripChars(@, {ByteOrderMark})]]

\* what validate_and_build returns, or how it ends, and the rows it leaves
\* to the caller
ValidateAndBuild(rs, sort) ==
    IF rs = <<>> THEN [status |-> "SystemExit", rows |-> rs]
    ELSE IF Head(rs) = <<>> THEN [status |-> "IndexError", rows |-> rs]
    ELSE IF Lower(Strip(HeaderUnmarked(rs)[1][1])) # "key"
    THEN [status |-> "SystemExit", rows |-> HeaderUnmarked(rs)]
    ELSE IF Tail(Head(rs)) = <<>>
    THEN [status |-> "SystemExit", rows |-> HeaderUnmarked(rs)]
    ELSE LET raw_langs == Tail(Head(rs))
             ls == LangLoop([langs |-> <<>>, lang_map |-> <<>>, seen |-> {}], raw_langs)
             ds == DataLoop([data |-> <<>>, key_seen |-> {}, dup_keys |-> <<>>,
                             empty_count |-> [ln \in Range(ls.langs) |-> 0]],
                            Tail(rs), raw_langs, ls.lang_map)
             data == IF sort THEN SortByKey(<<>>, ds.data) ELSE ds.data
         IN [status |-> "ok",
             rows |-> HeaderUnmarked(rs),
             langs |-> ls.langs,
             data |-> data,
             stats |-> [rows |-> Len(data),
                        langs |-> ls.langs,
                        empty_per_lang |-> ds.empty_count,
                        duplicates |-> Duplicates(ds.dup_keys),
                        sorted |-> sort]]

----------------------------------------------------------------------------
(* main from the CSV on: the rows read_csv_rows returned go through        *)
(* validate_and_build, then main merges the model with the generated files *)
(* of the output folder (dry run)                                          *)

\* most data rows of the CSV
MaxCsvRows == 4

BuildHeaders ==
    {<<"key", "en">>, <<"key", "en", "en">>, <<"Key", "en-US", "en US">>,
     <<"key", "fr", "en">>, <<"key">>, <<"id", "en">>}

BuildRows ==
    {<<"a", "x">>, <<"a", "", "y">>, <<"b", " x">>, <<"#c", "x">>, <<"", "x">>}

\* the generated files a merging run finds
BuildHeaderFile == [exists |-> TRUE, has_struct |-> TRUE, fields |-> <<"key", "en">>]
BuildCppFile == [exists |-> TRUE, has_table |-> TRUE, rows |-> <<<<"b", "y">>, <<"c", "z">>>>]

InitBuild ==
    /\ pc = "build"
    /\ csv_rows \in {<<>>} \cup {<<h>> \o b : h \in BuildHeaders,
                                            b \in SeqsUpTo(BuildRows, MaxCsvRows)}
    /\ sort_keys \in BOOLEAN
    /\ args_merge \in BOOLEAN
    /\ h_file = IF args_merge THEN BuildHeaderFile ELSE NoFile
    /\ cpp_file = IF args_merge THEN BuildCppFile ELSE NoCppFile
    /\ prefer = "csv"
    /\ overwrite_all = FALSE
    /\ drop_orphans = FALSE
    /\ csv_langs = <<>>
    /\ csv_data = <<>>
    /\ stats = PyNone
    /\ h_text = ""
    /\ cpp_text = ""
    /\ runs = 0
    /\ existing_langs = <<>>
    /\ existing_data = <<>>
    /\ preserve_order_keys = PyNone
    /\ merged_langs = <<>>
    /\ merged_rows = <<>>
    /\ counters = PyNone
    /\ out_langs = <<>>
    /\ out_data = <<>>

validate_and_build ==
    /\ pc = "build"
    /\ \E r \in {ValidateAndBuild(csv_rows, sort_keys)} :
          /\ IF r.status = "ok"
             THEN /\ csv_langs' = r.langs
                  /\ csv_data' = r.data
                  /\ stats' = r.stats
                  /\ pc' = "main"
             ELSE /\ pc' = r.status
                  /\ UNCHANGED <<csv_langs, csv_data, stats>>
          /\ csv_rows' = r.rows
    /\ UNCHANGED <<existing_langs, existing_data, prefer, overwrite_all, drop_orphans,
                   preserve_order_keys, merged_langs, merged_rows, counters,
                   args_merge, h_file, cpp_file, out_langs, out_data,
                   sort_keys, h_text, cpp_text, runs>>

NextBuild == validate_and_build \/ main

SpecBuild == InitBuild /\ [][NextBuild]_vars

----------------------------------------------------------------------------
(* Vocabulary of the properties of validate_and_build *)

\* validate_and_build has returned
Built == pc \in {"main", "main_done"} /\ csv_rows # <<>>

\* the data rows that make a record, in row order: not blank, and with a
\* key that is neither empty nor a comment
IsRecordRow(r) ==
    /\ \E i \in DOMAIN r : r[i] # ""
    /\ Strip(r[1]) # ""
    /\ ~StartsWith(Strip(r[1]), "#")
    /\ ~StartsWith(Strip(r[1]), "//")

RecordRows == SelectSeq(Tail(csv_rows), IsRecordRow)

\* the trimmed cell of column c (the key column is column 1) of the row r
Cell(r, c) == IF c <= Len(r) THEN Strip(r[c]) ELSE ""

\* the language identifier ln stands for the column after its position
ColumnOf(ln) == 1 + CHOOSE j \in DOMAIN csv_langs : csv_langs[j] = ln

ExpectedRecord(r) ==
    [f \in {"key"} \cup Range(csv_langs) |->
        IF f = "key" THEN Cell(r, 1) ELSE Cell(r, ColumnOf(f))]

ExpectedRecords == [i \in DOMAIN RecordRows |-> ExpectedRecord(RecordRows[i])]

\* the sequences s and t hold the same elements the same number of times
SameBag(s, t) ==
    /\ Len(s) = Len(t)
    /\ \A x \in Range(s) \cup Range(t) :
          Cardinality({i \in DOMAIN s : s[i] = x}) = Cardinality({i \in DOMAIN t : t[i] = x})

(* C11: the language identifiers returned by validate_and_build are        *)
(* pairwise distinct and non-empty, one per language column, and every     *)
(* record holds, for each identifier, the trimmed cell of the column of    *)
(* that identifier in its row (empty when the row is short); the records   *)
(* are those of the record rows, in row order unless the keys are sorted.  *)
C11_RecordPerColumn ==
    Built =>
        /\ Len(csv_langs) = Len(csv_rows[1]) - 1
        /\ \A i, j \in DOMAIN csv_langs : i # j => csv_langs[i] # csv_langs[j]
        /\ \A i \in DOMAIN csv_langs : csv_langs[i] # ""
        /\ SameBag(csv_data, ExpectedRecords)
        /\ ~sort_keys => csv_data = ExpectedRecords

\* the keys of a list of records, in order
KeysOf(data) == [i \in DOMAIN data |-> data[i]["key"]]

\* the keys of the record rows, in row order
RowKeys == [i \in DOMAIN RecordRows |-> Cell(RecordRows[i], 1)]

\* the last record row of the key k
LastRowOf(k) ==
    RecordRows[CHOOSE i \in DOMAIN RowKeys :
                   RowKeys[i] = k /\ \A j \in DOMAIN RowKeys : RowKeys[j] = k => j <= i]

\* the keys met again after their first row
RepeatedKeys == {RowKeys[i] : i \in {i \in DOMAIN RowKeys : \E j \in 1..(i - 1) : RowKeys[j] = RowKeys[i]}}

MergedFromCsv == pc = "main_done" /\ csv_rows # <<>> /\ args_merge

(* C12: the records returned by validate_and_build have pairwise distinct  *)
(* keys, one record per key of the CSV; the record of a key holds, for     *)
(* each of its languages, the cell of the last row of that key; every      *)
(* repeated key is in the duplicates report; and the rows emitted after    *)
(* the merge hold each key at most once.                                   *)
C12_LastOccurrenceWins ==
    /\ Built =>
          /\ NoDup(KeysOf(csv_data))
          /\ Range(KeysOf(csv_data)) = Range(RowKeys)
          /\ \A i \in DOMAIN csv_data :
                \A ln \in DOMAIN csv_data[i] \ {"key"} :
                    csv_data[i][ln] = Cell(LastRowOf(csv_data[i]["key"]), ColumnOf(ln))
          /\ RepeatedKeys \subseteq Range(stats.duplicates)
    /\ MergedFromCsv => NoDup(KeysOf(out_data))

\* the row at which the key k is met for the second time
SecondOccurrence(k) ==
    CHOOSE i \in DOMAIN RowKeys :
        RowKeys[i] = k /\ Cardinality({j \in 1..(i - 1) : RowKeys[j] = k}) = 1

(* C13 as stated: the duplicates report holds each repeated key of the CSV *)
(* exactly once, in the order in which the keys were first met again.      *)
C13_DetectionOrder ==
    Built =>
        /\ Range(stats.duplicates) = RepeatedKeys
        /\ NoDup(stats.duplicates)
        /\ \A i, j \in DOMAIN stats.duplicates :
              i < j => SecondOccurrence(stats.duplicates[i])
                          < SecondOccurrence(stats.duplicates[j])

(* C13, amended: the duplicates report holds each repeated key of the CSV  *)
(* exactly once, in ascending order of the keys (by code point), whatever  *)
(* the order in which the keys were met again.                             *)
C13_SortedDuplicates ==
    Built =>
        /\ Range(stats.duplicates) = RepeatedKeys
        /\ \A i, j \in DOMAIN stats.duplicates :
              i < j => StrLess(stats.duplicates[i], stats.duplicates[j])

\* two keys are repeated, and the one reported first was met again last
C13_Witness ==
    /\ Built
    /\ Len(stats.duplicates) = 2
    /\ SecondOccurrence(stats.duplicates[1]) > SecondOccurrence(stats.duplicates[2])

----------------------------------------------------------------------------
(* The generators and the text the parsers read. Of each generated file    *)
(* the model keeps the lines the regular expressions of the parsers can    *)
(* match: the lines before them hold neither "struct" nor "const Entry",   *)
(* and both expressions stop at the first "};" after their opening.        *)

\* v is None: PyNone is the one-element list of a word no character equals
IsNone(v) == Len(v) = 1 /\ Head(v) = Head(PyNone)

cxx_escape(s) ==
    IF IsNone(s) THEN "" ELSE
    LET s1 == Replace(Replace(s, "\\", "\\\\"), "\"", "\\\"")
        s2 == Replace(Replace(Replace(s1, "\r\n", "\n"), "\r", "\n"), "\t", "\\t")
    IN Replace(s2, "\n", "\\n")

\* sep.join(xs)
RECURSIVE Join(_, _)
Join(sep, xs) ==
    IF xs = <<>> THEN ""
    ELSE IF Len(xs) = 1 THEN xs[1]
    ELSE xs[1] \o sep \o Join(sep, Tail(xs))

\* generate_header, from "struct Entry {" to "};"
generate_header(langs) ==
    "struct Entry {\n    const char* key;\n"
        \o Join("\n", [i \in DOMAIN langs |-> "    const char* " \o langs[i] \o ";"])
        \o "\n};\n"

\* the line of one row: every field escaped and quoted
CppRowLine(langs, row) ==
    "    { \"" \o cxx_escape(row["key"]) \o "\", \""
        \o Join("\", \"", [i \in DOMAIN langs |-> cxx_escape(Get(row, langs[i]))])
        \o "\" },"

\* generate_cpp, from "const Entry D[] = {" to "};"
generate_cpp(langs, data) ==
    Join("\n", <<"const Entry D[] = {">>
                   \o [i \in DOMAIN data |-> CppRowLine(langs, data[i])]
                   \o <<"};\n">>)

\* open(path, "r").read(): every line end is read as a line feed
ReadText(txt) == Replace(Replace(txt, "\r\n", "\n"), "\r", "\n")

\* the text p stands at position i of s
At(s, i, p) == i >= 1 /\ i + Len(p) - 1 <= Len(s) /\ SubSeq(s, i, i + Len(p) - 1) = p

\* the first position at or after i that holds no character of the set cs
SkipChars(b, i, cs) ==
    LET stops == {j \in i..Len(b) : SubSeq(b, j, j) \notin cs}
    IN IF i > Len(b) THEN i
       ELSE IF stops = {} THEN Len(b) + 1
       ELSE MinOf(stops)

\* The openings of the regular expressions are words, each after no space
\* (gap ""), after \s+ (gap "+") or after \s* (gap "*").
\* struct\s+Entry\s*\{
StructOpen ==
    <<[gap |-> "", lit |-> "struct"], [gap |-> "+", lit |-> "Entry"],
      [gap |-> "*", lit |-> "{"]>>
\* const\s+Entry\s+D\s*\[\s*\]\s*=\s*\{
TableOpen ==
    <<[gap |-> "", lit |-> "const"], [gap |-> "+", lit |-> "Entry"],
      [gap |-> "+", lit |-> "D"], [gap |-> "*", lit |-> "["],
      [gap |-> "*", lit |-> "]"], [gap |-> "*", lit |-> "="],
      [gap |-> "*", lit |-> "{"]>>
\* const\s+char\*
CharStar == <<[gap |-> "", lit |-> "const"], [gap |-> "+", lit |-> "char*"]>>
BlockClose == "};"

\* the position after the words ws matched at position i of txt, 0 if they
\* do not match there
RECURSIVE MatchWords(_, _, _)
MatchWords(txt, i, ws) ==
    IF ws = <<>> THEN i
    ELSE LET w == Head(ws)
             j == IF w.gap = "" THEN i ELSE SkipChars(txt, i, Whitespace)
         IN IF (w.gap = "+" /\ j = i) \/ ~At(txt, j, w.lit) THEN 0
            ELSE MatchWords(txt, j + Len(w.lit), Tail(ws))

\* re.search of the words from position i on: the position after the first
\* match, 0 if there is none
SearchWords(txt, i, ws) ==
    LET starts == {j \in i..Len(txt) : MatchWords(txt, j, ws) # 0}
    IN IF starts = {} THEN 0 ELSE MatchWords(txt, MinOf(starts), ws)

\* group 1 of open(.*?)\}; searched in txt: found, and the text between
BlockOf(txt, open) ==
    LET o == SearchWords(txt, 1, open)
        c == FindFrom(txt, BlockClose, o)
    IN IF o = 0 \/ c = 0 THEN [found |-> FALSE, body |-> ""]
       ELSE [found |-> TRUE, body |-> SubSeq(txt, o, c - 1)]

\* const\s+char\*\s+([A-Za-z0-9_]+)\s*; matched at position i of b
MatchCharField(b, i) ==
    LET j == MatchWords(b, i, CharStar)
        k == SkipChars(b, j, Whitespace)
        e == SkipChars(b, k, WordChars)
        f == SkipChars(b, e, Whitespace)
    IN IF j # 0 /\ k > j /\ e > k /\ At(b, f, ";")
       THEN [ok |-> TRUE, name |-> SubSeq(b, k, e - 1), next |-> f + 1]
       ELSE [ok |-> FALSE, name |-> "", next |-> i + 1]

\* re.findall of that expression from position i on
RECURSIVE CharFields(_, _)
CharFields(b, i) ==
    LET c == FindFrom(b, "const", i)
        m == MatchCharField(b, c)
    IN IF c = 0 THEN <<>>
       ELSE IF m.ok THEN <<m.name>> \o CharFields(b, m.next)
       ELSE CharFields(b, c + 1)

\* what parse_existing_header extracts from the text of an existing file
HeaderFileOf(txt) ==
    LET m == BlockOf(ReadText(txt), StructOpen)
    IN [exists |-> TRUE, has_struct |-> m.found,
        fields |-> IF m.found THEN CharFields(m.body, 1) ELSE <<>>]

\* re.findall(r"\{(.*?)\}", block, re.S)
RECURSIVE BraceRows(_)
BraceRows(b) ==
    LET o == FindFrom(b, "{", 1)
        c == FindFrom(b, "}", o + 1)
    IN IF o = 0 \/ c = 0 THEN <<>>
       ELSE <<SubSeq(b, o + 1, c - 1)>> \o BraceRows(SubSeq(b, c + 1, Len(b)))

\* (?:\\.|[^"\\])* from position i on: the position after the longest match;
\* a dot does not match a line feed
RECURSIVE BodyEnd(_, _)
BodyEnd(r, i) ==
    LET stops == {j \in i..Len(r) : SubSeq(r, j, j) \in {"\"", "\\"}}
        j == MinOf(stops)
    IN IF stops = {} THEN (IF i > Len(r) THEN i ELSE Len(r) + 1)
       ELSE IF SubSeq(r, j, j) = "\"" THEN j
       ELSE IF j + 1 <= Len(r) /\ SubSeq(r, j + 1, j + 1) # "\n" THEN BodyEnd(r, j + 2)
       ELSE j

\* re.findall(r'"((?:\\.|[^"\\])*)"', r) from position i on: the bodies, as
\* they stand in the text
RECURSIVE QuotedFields(_, _)
QuotedFields(r, i) ==
    LET q == FindFrom(r, "\"", i)
        e == BodyEnd(r, q + 1)
    IN IF q = 0 THEN <<>>
       ELSE IF At(r, e, "\"")
       THEN <<SubSeq(r, q + 1, e - 1)>> \o QuotedFields(r, e + 1)
       ELSE QuotedFields(r, q + 1)

\* what parse_existing_table extracts from the text of an existing file
CppFileOf(txt) ==
    LET m == BlockOf(ReadText(txt), TableOpen)
        rs == IF m.found THEN BraceRows(m.body) ELSE <<>>
    IN [exists |-> TRUE, has_table |-> m.found,
        rows |-> [i \in DOMAIN rs |-> QuotedFields(rs[i], 1)]]

----------------------------------------------------------------------------
(* main run again and again on one CSV with the files written: each run    *)
(* merges the CSV model with what the files of the previous run hold (the  *)
(* first run finds no file), then writes both files anew                   *)

\* most runs
MaxRuns == 2
\* most value cells (rows times languages) of the CSV model
MaxTextCells == 2

TextLangLists == {<<"en">>, <<"en", "fr">>}
TextKeys == {"a", "b"}
\* plain and empty values, a backslash, a double quote, a tab, a line feed,
\* a closing brace
TextValues == {"", "x", "\\", "\"", "a\tb", "a\nb", "}"}

TextRows(langs) ==
    {RowDict(k, langs, v) : k \in TextKeys, v \in [Range(langs) -> TextValues]}

\* the CSV models with pairwise distinct keys
TextTables(langs) ==
    UNION {{t \in [1..m -> TextRows(langs)] : NoDup([i \in 1..m |-> t[i]["key"]])} :
              m \in {m \in 0..MaxTextCells : m * Len(langs) <= MaxTextCells}}

InitText ==
    /\ pc = "run"
    /\ csv_langs \in TextLangLists
    /\ csv_data \in TextTables(csv_langs)
    /\ prefer \in {"csv", "existing"}
    /\ overwrite_all = FALSE
    /\ drop_orphans = FALSE
    /\ args_merge \in BOOLEAN
    /\ h_file = NoFile
    /\ cpp_file = NoCppFile
    /\ existing_langs = <<>>
    /\ existing_data = <<>>
    /\ preserve_order_keys = PyNone
    /\ merged_langs = <<>>
    /\ merged_rows = <<>>
    /\ counters = PyNone
    /\ out_langs = <<>>
    /\ out_data = <<>>
    /\ NoIo

\* one run of main that writes the files; h_file and cpp_file are what the
\* parsers extracted from the files the run found
main_write ==
    /\ pc = "run"
    /\ runs < MaxRuns
    /\ IF args_merge /\ runs > 0
       THEN \E h \in {HeaderFileOf(h_text)}, c \in {CppFileOf(cpp_text)} :
            LET hl == ParseExistingHeader(h)
                el == IF ListTruthy(hl) THEN hl ELSE <<>>
                ed == ParseExistingTable(c, el)
                pok == [i \in DOMAIN csv_data |-> csv_data[i]["key"]]
            IN \E r \in {MergeModels(csv_langs, csv_data, el, ed,
                                     prefer, overwrite_all, drop_orphans, pok)} :
                  /\ h_file' = h
                  /\ cpp_file' = c
                  /\ existing_langs' = el
                  /\ existing_data' = ed
                  /\ preserve_order_keys' = pok
                  /\ merged_langs' = r.langs
                  /\ merged_rows' = r.rows
                  /\ counters' = r.counters
                  /\ out_langs' = r.langs
                  /\ out_data' = r.rows
                  /\ h_text' = generate_header(r.langs)
                  /\ cpp_text' = generate_cpp(r.langs, r.rows)
       ELSE /\ out_langs' = csv_langs
            /\ out_data' = csv_data
            /\ h_text' = generate_header(csv_langs)
            /\ cpp_text' = generate_cpp(csv_langs, csv_data)
            /\ UNCHANGED <<h_file, cpp_file, existing_langs, existing_data,
                           preserve_order_keys, merged_langs, merged_rows, counters>>
    /\ runs' = runs + 1
    /\ pc' = "run"
    /\ UNCHANGED <<csv_langs, csv_data, prefer, overwrite_all, drop_orphans,
                   args_merge, csv_rows, sort_keys, stats>>

NextText == main_write

SpecText == InitText /\ [][NextText]_vars

----------------------------------------------------------------------------
(* Vocabulary of the properties of the written files *)

FilesWritten == pc = "run" /\ runs > 0

\* what the parsers read in the files as they stand
ReadLangs == ParseExistingHeader(HeaderFileOf(h_text))
ReadTable == ParseExistingTable(CppFileOf(cpp_text), out_langs)

\* the run merged with the files of the run before
Remerged == FilesWritten /\ args_merge /\ runs >= 2

(* C14: the files a run wrote read back as the model they were generated   *)
(* from: the same languages and, for every key, the same value per         *)
(* language; and a run that merged the unchanged CSV with the files of the *)
(* run before leaves in the files, for every key and language, the value   *)
(* that was read from them.                                                *)
C14_RoundTrip ==
    /\ FilesWritten =>
          /\ ReadLangs = out_langs
          /\ \A i \in DOMAIN out_data :
                /\ OdHas(ReadTable, out_data[i]["key"])
                /\ \A ln \in Range(out_langs) :
                      Get(OdGet(ReadTable, out_data[i]["key"]), ln) = Get(out_data[i], ln)
    /\ Remerged =>
          \A i \in DOMAIN existing_data :
              /\ OdHas(ReadTable, existing_data[i].key)
              /\ \A ln \in DOMAIN existing_data[i].entry :
                    Get(OdGet(ReadTable, existing_data[i].key), ln)
                        = existing_data[i].entry[ln]

====
